---- MODULE Spec2Model ----
(***************************************************************************)
(* Model of the Lookout Gallery thumbnail engine                           *)
(* (custom_components/lookout_gallery/thumbnail.py, ThumbnailGenerator).   *)
(*                                                                         *)
(* Strings are sequences of tokens: "/media/a.mp4" is                      *)
(* <<"/", "media", "/", "a", ".mp4">>.  A token is a run of characters     *)
(* that no operation of the program splits in this universe, so the        *)
(* substring, prefix, join and suffix operations of the code are the same  *)
(* operations on token sequences.  None is the empty sequence.             *)
(*                                                                         *)
(* One asyncio event loop runs the tasks: the code between two awaits of   *)
(* a coroutine is one action.  The file system, the clock and the ffmpeg   *)
(* subprocesses are the environment and move on their own.                 *)
(***************************************************************************)
EXTENDS Integers, Sequences, FiniteSets, TLC

VARIABLES
    now,                \* wall clock, in seconds; a written file gets mtime = now
    dirs,               \* the directories that exist
    files,              \* existing regular files: path -> [mtime, ver]
    ffmpeg_available,   \* self._ffmpeg_available: "unknown" (None), "yes", "no"
    memo,               \* self._cache: media_content_id -> thumbnail path
    task,               \* the coroutines: task -> record (see IdleTask)
    procs,              \* running ffmpeg render subprocesses
    probes,             \* number of "ffmpeg -version" subprocesses started so far
    calls,              \* number of engine calls started so far
    envops,             \* number of file changes made by the environment so far
    media_paths,        \* self.media_paths: the configured media roots, in order
    quality,            \* self.quality: the configured thumbnail quality
    hass                \* the integration in Home Assistant (see LoadedHass)

vars == <<now, dirs, files, ffmpeg_available, memo, task, procs, probes, calls, envops,
          media_paths, quality, hass>>

\* what is set when the engine is constructed and never assigned afterwards
setup_vars == <<media_paths, quality>>

----------------------------------------------------------------------------
\* Bounds of the model

NumTasks == 2       \* coroutines that may overlap
MaxCalls == 2       \* engine calls in one behaviour
MaxEnvOps == 1      \* source/cache changes made by the environment
MaxTime == 30       \* horizon of the clock
MaxSetups == 2      \* async_setup_entry calls in one behaviour

Tasks == 1..NumTasks
MaxVer == MaxEnvOps + 1   \* content versions a source file can reach

----------------------------------------------------------------------------
\* Program constants

DEFAULT_THUMBNAIL_FOLDER == <<".thumbnails">>
VIDEO_EXTENSIONS == {".mp4", ".mkv", ".avi", ".mov", ".webm", ".m4v", ".ts"}
IMAGE_EXTENSIONS == {".jpg", ".jpeg", ".png", ".gif", ".webp"}
VideoTimeout == 30
ImageTimeout == 15
DEFAULT_THUMBNAIL_QUALITY == 70
DEFAULT_AUTO_GENERATE == TRUE
StartupDelay == 60
MinQuality == 10
MaxQuality == 100
MEDIA_SOURCE_PREFIX == "media-source://media_source/"
LOCAL_PREFIX == "local/"
MEDIA_BASE == <<"/", "media">>

NoPath == << >>

----------------------------------------------------------------------------
\* The configuration of the engine (ThumbnailGenerator.__init__)

\* the media_paths the engine is constructed with
ConfiguredPaths == << <<"/", "alt">>, <<"/", "media">> >>
thumbnail_folder == DEFAULT_THUMBNAIL_FOLDER

----------------------------------------------------------------------------
\* The media tree of the model

FileA == <<"/", "media", "/", "a", ".mp4">>
FileB == <<"/", "media", "/", "b", ".png">>
FileC == <<"/", "media", "/", ".thumbnails", "_old", "/", "c", ".mp4">>
DirMedia == <<"/", "media">>
DirOld == <<"/", "media", "/", ".thumbnails", "_old">>
SourceFiles == {FileA, FileB, FileC}

\* more files of a media directory: an upper-case extension, two files that are
\* no media, and a hidden file whose name looks like an extension
FileU == <<"/", "media", "/", "clip", ".MP4">>
FileT == <<"/", "media", "/", "notes", ".txt">>
FileZ == <<"/", "media", "/", "archive", ".zip">>
FileH == <<"/", "media", "/", ".mp4">>
ScanUniverse == {FileA, FileB, FileU, FileT, FileZ, FileH}

\* media_content_ids the callers pass to async_get_thumbnail
UriA == <<MEDIA_SOURCE_PREFIX, LOCAL_PREFIX, "a", ".mp4">>
Ids == {FileA, UriA}

\* the path of FileA spelled with a doubled separator: "/media//a.mp4"
FileA2 == <<"/", "media", "/", "/", "a", ".mp4">>

\* the same relative path under two more roots, and the identifier without
\* the "local/" segment
AltA == <<"/", "alt", "/", "a", ".mp4">>
Alt2A == <<"/", "alt2", "/", "a", ".mp4">>
UriNoLocal == <<MEDIA_SOURCE_PREFIX, "a", ".mp4">>
ResolveUniverse == {FileA, AltA, Alt2A}
ResolveIds == {UriA, UriNoLocal, FileA, AltA}
ResolveConfigs ==
    { << <<"/", "alt">> >>,
      << <<"/", "alt">>, <<"/", "alt2">> >>,
      << <<"/", "alt2">>, <<"/", "alt">> >>,
      << <<"/", "alt2">>, <<"/", "alt">>, <<"/", "media">> >> }

----------------------------------------------------------------------------
\* Path and string helpers (pathlib / os.path / str)

Min(S) == CHOOSE x \in S : \A y \in S : x <= y

\* s in p (substring test on strings)
IsSubstr(s, p) == \E i \in 0..(Len(p) - Len(s)) : SubSeq(p, i + 1, i + Len(s)) = s

\* the name the operating system and pathlib make of a path string: repeated
\* separators count as one
RECURSIVE Canon(_)
Canon(p) ==
    IF Len(p) < 2 THEN p
    ELSE IF p[1] = "/" /\ p[2] = "/" THEN Canon(Tail(p))
    ELSE <<p[1]>> \o Canon(Tail(p))

LastSlash(p) == CHOOSE i \in 1..Len(p) : p[i] = "/" /\ \A j \in (i+1)..Len(p) : p[j] # "/"

\* Path(p).parent
Parent(p) == IF LastSlash(p) = 1 THEN <<"/">> ELSE SubSeq(p, 1, LastSlash(p) - 1)

\* Path(p).name
Name(p) == SubSeq(p, LastSlash(p) + 1, Len(p))

\* Lower without the case folding
Lower_Identity(x) == x

\* str.lower() on an extension
Lower(x) ==
    CASE x = ".MP4" -> ".mp4"
      [] x = ".PNG" -> ".png"
      [] x = ".JPG" -> ".jpg"
      [] OTHER -> x

ExtTokens == VIDEO_EXTENSIONS \cup IMAGE_EXTENSIONS \cup {".MP4", ".PNG", ".JPG", ".txt", ".zip"}

\* Path(p).suffix: the last dot-part of the name, "" when there is none
RawSuffix(p) ==
    LET n == Name(p) IN
    IF Len(n) >= 2 /\ n[Len(n)] \in ExtTokens THEN n[Len(n)] ELSE ""

\* Path(p).suffix.lower()
Suffix(p) == Lower(RawSuffix(p))

\* Path(p).stem
Stem(p) ==
    LET n == Name(p) IN
    IF RawSuffix(p) = "" THEN n ELSE SubSeq(n, 1, Len(n) - 1)

\* os.path.join(root, name) and Path(base) / rel
Join(base, rel) ==
    IF rel # << >> /\ Head(rel) = "/" THEN rel
    ELSE IF rel = << >> THEN base
    ELSE base \o <<"/">> \o rel

\* hashlib.md5(media_path.encode()).hexdigest()[:8]
Md5Hex8(p) ==
    CASE p = FileA -> "fe16f9f3"
      [] p = FileB -> "35d0c5e7"
      [] p = FileC -> "4e92e20d"
      [] p = AltA -> "57827a43"
      [] p = Alt2A -> "ef4cb46e"
      [] p = FileU -> "e65b755e"
      [] p = FileT -> "0c28adc7"
      [] p = FileZ -> "4894d1cc"
      [] p = FileH -> "2f8693ea"
      [] p = FileA2 -> "e9844d94"
      [] OTHER -> "d41d8cd9"

\* Exists that finds every path
Exists_Always(p) == TRUE

\* os.path.exists / Path.exists
Exists(p) == Canon(p) \in DOMAIN files \/ Canon(p) \in dirs

----------------------------------------------------------------------------
\* ThumbnailGenerator helpers

\* _get_thumbnail_path: parent and stem of Path(media_path), digest of the
\* string media_path
ThumbPath(media_path) ==
    Join(Join(Parent(Canon(media_path)), thumbnail_folder),
         Stem(Canon(media_path)) \o <<"_", Md5Hex8(media_path), ".jpg">>)

\* _is_video, _is_image
IsVideo(p) == Suffix(p) \in VIDEO_EXTENSIONS
IsImage(p) == Suffix(p) \in IMAGE_EXTENSIONS

\* IsFresh with ">" for ">=": equal mtimes count as stale
IsFresh_Strict(thumb, src) ==
    /\ thumb \in DOMAIN files
    /\ files[thumb].mtime > files[src].mtime

\* IsFresh with the comparison reversed
IsFresh_Reversed(thumb, src) ==
    /\ thumb \in DOMAIN files
    /\ files[thumb].mtime <= files[src].mtime

\* thumb_path.exists() and thumb_path.stat().st_mtime >= Path(src).stat().st_mtime
\* (lines 111-112 and 260-261)
IsFresh(thumb, src) ==
    /\ Exists(thumb)
    /\ thumb \in DOMAIN files
    /\ files[thumb].mtime >= files[Canon(src)].mtime

\* RelativePath that leaves a leading "local/" in place
RelativePath_KeepsLocal(id) ==
    SelectSeq(id, LAMBDA x : x # MEDIA_SOURCE_PREFIX)

\* str.replace(prefix, "") followed by the removal of a leading "local/"
RelativePath(id) ==
    LET r == SelectSeq(id, LAMBDA x : x # MEDIA_SOURCE_PREFIX) IN
    IF r # << >> /\ Head(r) = LOCAL_PREFIX THEN Tail(r) ELSE r

\* FirstExisting that keeps the last existing candidate instead of the first
RECURSIVE FirstExisting_Last(_, _)
FirstExisting_Last(bases, rel) ==
    IF bases = << >> THEN NoPath
    ELSE IF FirstExisting_Last(Tail(bases), rel) # NoPath
    THEN FirstExisting_Last(Tail(bases), rel)
    ELSE IF Exists(Join(Head(bases), rel)) THEN Join(Head(bases), rel)
    ELSE NoPath

RECURSIVE FirstExisting(_, _)
FirstExisting(bases, rel) ==
    IF bases = << >> THEN NoPath
    ELSE IF Exists(Join(Head(bases), rel)) THEN Join(Head(bases), rel)
    ELSE FirstExisting(Tail(bases), rel)

\* _resolve_media_path
Resolve(id) ==
    IF id # << >> /\ Head(id) = MEDIA_SOURCE_PREFIX
    THEN IF Exists(Join(MEDIA_BASE, RelativePath(id)))
         THEN Join(MEDIA_BASE, RelativePath(id))
         ELSE FirstExisting(media_paths, RelativePath(id))
    ELSE IF Exists(id) THEN id ELSE NoPath

\* NeedsProbe without the test of the cached answer
NeedsProbe_Always == TRUE

\* the tool probe is needed: self._ffmpeg_available is None (line 53)
NeedsProbe == ffmpeg_available = "unknown"

----------------------------------------------------------------------------
\* Tasks

ZeroStats == [scanned |-> 0, generated |-> 0, skipped |-> 0, failed |-> 0]

IdleTask ==
    [op |-> "idle",         \* "idle", "check", "lookup", "scan", "setup"
     pc |-> "idle",         \* "idle", "probe", "render", "run", "done", "raised"
     id |-> NoPath,         \* lookup: media_content_id
     path |-> NoPath,       \* scan: the path argument (NoPath is None)
     media |-> NoPath,      \* render: the source path handed to the renderer
     thumb |-> NoPath,      \* render: the destination path handed to the renderer
     kind |-> "none",       \* render: "video" or "image"
     bases |-> << >>,       \* scan: roots not yet walked
     stack |-> {},          \* scan: directories os.walk has still to yield
     queue |-> {},          \* scan: files of the current directory not yet handled
     stats |-> ZeroStats,   \* scan: the stats dict
     result |-> NoPath,     \* lookup: the returned path (NoPath is None)
     avail |-> "none",      \* check: the returned availability
     started |-> 0,         \* render: the time at which wait_for began
     gen |-> 1,             \* the generator the coroutine runs on, by order of construction
     again |-> FALSE,       \* scan, history: the call before it was a finished scan of the same roots
     fresh0 |-> FALSE]      \* scan, history: every entry it covers was fresh when it was called

Free(t) == task[t].pc \in {"idle", "done", "raised"}

\* the event loop starts a call as a new coroutine; coroutines are anonymous, so
\* the lowest free slot takes it
Ready(t) == Free(t) /\ \A u \in Tasks : Free(u) => t <= u

SetTask(t, r) == task' = [task EXCEPT ![t] = r]

\* the renderer has returned or raised: its arguments are dropped
Clear(tk) == [tk EXCEPT !.media = NoPath, !.thumb = NoPath, !.kind = "none", !.started = 0]

\* Timeout with the video budget for both renderers
Timeout_Same(kind) == VideoTimeout

\* the argument of "-q:v": str(int((100 - self.quality) / 3.33)), where int
\* truncates the quotient (100 - quality) * 100 / 333 (lines 173 and 211)
QualityArg(q) == ((100 - q) * 100) \div 333

\* the timeout of asyncio.wait_for (lines 182 and 220)
Timeout(kind) == IF kind = "video" THEN VideoTimeout ELSE ImageTimeout

\* Unavailable without the early return
Unavailable_Never(avail) == FALSE

\* "if not await self.async_check_ffmpeg(): return False" (lines 160 and 200)
Unavailable(avail) == avail = "no"

\* RenderReturn in which the scan memoizes the cache path of a generated file
RenderReturn_ScanMemoizes(t, tk, success) ==
    IF success
    THEN /\ memo' = [x \in DOMAIN memo \cup {tk.media} |->
                        IF x = tk.media THEN tk.thumb ELSE memo[x]]
         /\ SetTask(t, IF tk.op = "lookup"
                       THEN [Clear(tk) EXCEPT !.pc = "done", !.result = tk.thumb]
                       ELSE [Clear(tk) EXCEPT !.pc = "run",
                                !.stats = [tk.stats EXCEPT !.generated = @ + 1]])
    ELSE /\ memo' = memo
         /\ SetTask(t, IF tk.op = "lookup"
                       THEN [Clear(tk) EXCEPT !.pc = "done", !.result = NoPath]
                       ELSE [Clear(tk) EXCEPT !.pc = "run",
                                !.stats = [tk.stats EXCEPT !.failed = @ + 1]])

\* RenderReturn whose scan counts a failed render nowhere
RenderReturn_DropsFailed(t, tk, success) ==
    IF tk.op = "lookup"
    THEN IF success
         THEN /\ memo' = [x \in DOMAIN memo \cup {tk.id} |-> IF x = tk.id THEN tk.thumb ELSE memo[x]]
              /\ SetTask(t, [Clear(tk) EXCEPT !.pc = "done", !.result = tk.thumb])
         ELSE /\ memo' = memo
              /\ SetTask(t, [Clear(tk) EXCEPT !.pc = "done", !.result = NoPath])
    ELSE /\ memo' = memo
         /\ SetTask(t, [Clear(tk) EXCEPT
                !.pc = "run",
                !.stats = IF success
                          THEN [tk.stats EXCEPT !.generated = @ + 1]
                          ELSE tk.stats])

\* the caller's code after "success = await self._generate_..._thumbnail(...)"
\* (async_get_thumbnail lines 125-129, async_generate_all_thumbnails lines 270-275)
RenderReturn(t, tk, success) ==
    IF tk.op = "lookup"
    THEN IF success
         THEN /\ memo' = [x \in DOMAIN memo \cup {tk.id} |-> IF x = tk.id THEN tk.thumb ELSE memo[x]]
              /\ SetTask(t, [Clear(tk) EXCEPT !.pc = "done", !.result = tk.thumb])
         ELSE /\ memo' = memo
              /\ SetTask(t, [Clear(tk) EXCEPT !.pc = "done", !.result = NoPath])
    ELSE /\ memo' = memo
         /\ SetTask(t, [Clear(tk) EXCEPT
                !.pc = "run",
                !.stats = IF success
                          THEN [tk.stats EXCEPT !.generated = @ + 1]
                          ELSE [tk.stats EXCEPT !.failed = @ + 1]])

\* RenderStart that starts no second render for a cache path: it returns False
\* while another subprocess writes the same path
RenderStart_SingleFlight(t, tk, avail) ==
    IF Unavailable(avail) \/ \E p \in procs : p.out = tk.thumb
    THEN /\ RenderReturn(t, tk, FALSE)
         /\ UNCHANGED <<dirs, procs>>
    ELSE /\ dirs' = dirs \cup {Parent(tk.thumb)}
         /\ procs' = procs \cup {[owner |-> t, awaited |-> TRUE, t0 |-> now,
                                 src |-> tk.media, out |-> tk.thumb,
                                 kind |-> tk.kind, q |-> QualityArg(quality),
                                 ver |-> IF Canon(tk.media) \in DOMAIN files
                                         THEN files[Canon(tk.media)].ver ELSE 0]}
         /\ SetTask(t, [tk EXCEPT !.pc = "render", !.started = now])
         /\ memo' = memo

\* _generate_video_thumbnail / _generate_image_thumbnail after the probe
\* (lines 160-181, 200-219): the availability test, mkdir of the cache
\* directory and the start of ffmpeg under wait_for
RenderStart(t, tk, avail) ==
    IF Unavailable(avail)
    THEN /\ RenderReturn(t, tk, FALSE)
         /\ UNCHANGED <<dirs, procs>>
    ELSE \/ /\ dirs' = dirs \cup {Parent(tk.thumb)}
            /\ procs' = procs \cup {[owner |-> t, awaited |-> TRUE, t0 |-> now,
                                    src |-> tk.media, out |-> tk.thumb,
                                    kind |-> tk.kind, q |-> QualityArg(quality),
                                    ver |-> IF Canon(tk.media) \in DOMAIN files
                                            THEN files[Canon(tk.media)].ver ELSE 0]}
            /\ SetTask(t, [tk EXCEPT !.pc = "render", !.started = now])
            /\ memo' = memo
         \/ /\ Parent(tk.thumb) \notin dirs     \* mkdir raises (read-only or full file system)
            /\ SetTask(t, [Clear(tk) EXCEPT !.pc = "raised"])
            /\ UNCHANGED <<dirs, procs, memo>>

\* _generate_video_thumbnail / _generate_image_thumbnail from their first line:
\* async_check_ffmpeg starts "ffmpeg -version" unless the answer is cached
RenderEnter(t, tk) ==
    IF tk.gen # hass.gen
    THEN \* a generator that was replaced: its probe result is cached
         /\ probes' = probes
         /\ RenderStart(t, tk, hass.retired[tk.gen])
    ELSE IF NeedsProbe
    THEN /\ probes' = probes + 1
         /\ SetTask(t, [tk EXCEPT !.pc = "probe"])
         /\ UNCHANGED <<dirs, procs, memo>>
    ELSE /\ probes' = probes
         /\ RenderStart(t, tk, ffmpeg_available)

----------------------------------------------------------------------------
\* Engine calls

\* async_check_ffmpeg called directly (async_setup_entry line 106)
CheckCall(t) ==
    /\ Ready(t)
    /\ calls < MaxCalls
    /\ calls' = calls + 1
    /\ IF NeedsProbe
       THEN /\ probes' = probes + 1
            /\ SetTask(t, [IdleTask EXCEPT !.op = "check", !.pc = "probe"])
       ELSE /\ probes' = probes
            /\ SetTask(t, [IdleTask EXCEPT !.op = "check", !.pc = "done", !.avail = ffmpeg_available])
    /\ UNCHANGED <<now, dirs, files, ffmpeg_available, memo, procs, envops>>
    /\ UNCHANGED setup_vars
    /\ UNCHANGED hass

\* MemoHit that compares the mtimes before it answers from the memo
MemoHit_Checked(id) ==
    /\ id \in DOMAIN memo /\ Exists(memo[id])
    /\ Resolve(id) \in DOMAIN files /\ IsFresh(memo[id], Resolve(id))

\* the memo serves the call: media_path in self._cache and the file exists (lines 97-100)
MemoHit(id) == id \in DOMAIN memo /\ Exists(memo[id])

\* async_get_thumbnail up to its first await or return
LookupCall(t, id) ==
    /\ Ready(t)
    /\ calls < MaxCalls
    /\ calls' = calls + 1
    /\ LET tk == [IdleTask EXCEPT !.op = "lookup", !.id = id]
           actual == Resolve(id)
           thumb == ThumbPath(actual)
           render == [tk EXCEPT !.media = actual, !.thumb = thumb]
       IN
       IF MemoHit(id)
       THEN /\ SetTask(t, [tk EXCEPT !.pc = "done", !.result = memo[id]])
            /\ UNCHANGED <<memo, dirs, procs, probes>>
       ELSE IF actual = NoPath \/ ~Exists(actual)
       THEN /\ SetTask(t, [tk EXCEPT !.pc = "done", !.result = NoPath])
            /\ UNCHANGED <<memo, dirs, procs, probes>>
       ELSE IF IsFresh(thumb, actual)
       THEN /\ memo' = [x \in DOMAIN memo \cup {id} |-> IF x = id THEN thumb ELSE memo[x]]
            /\ SetTask(t, [tk EXCEPT !.pc = "done", !.result = thumb])
            /\ UNCHANGED <<dirs, procs, probes>>
       ELSE IF IsVideo(actual)
       THEN RenderEnter(t, [render EXCEPT !.kind = "video"])
       ELSE IF IsImage(actual)
       THEN RenderEnter(t, [render EXCEPT !.kind = "image"])
       ELSE /\ SetTask(t, [tk EXCEPT !.pc = "done", !.result = NoPath])
            /\ UNCHANGED <<memo, dirs, procs, probes>>
    /\ UNCHANGED <<now, files, ffmpeg_available, envops>>
    /\ UNCHANGED setup_vars
    /\ UNCHANGED hass

\* if self.thumbnail_folder in root: continue (lines 247-248)
SkipDir(root) == IsSubstr(thumbnail_folder, root)

\* The loops over paths_to_scan and os.walk (lines 241-250), run from a scan
\* position with no file in hand up to the next directory that yields files, or
\* to the end of the loops (queue = {}).  D and F are the directories and files
\* that exist.  The order among siblings is the order of os.scandir, which is
\* arbitrary: the directories and files still to come are sets, any member of
\* which may come next, so the result is the set of positions the walk may reach.
RECURSIVE Walk(_, _, _, _)
Walk(bases, stack, D, F) ==
    IF stack # {}
    THEN UNION {
            LET rest == (stack \ {root}) \cup {d \in D : d # root /\ Parent(d) = root}
                listing == {f \in DOMAIN F : Parent(f) = root}
            IN  IF SkipDir(root) \/ listing = {}
                THEN Walk(bases, rest, D, F)
                ELSE {[bases |-> bases, stack |-> rest, queue |-> listing]}
            : root \in stack}
    ELSE IF bases # << >>
    THEN IF Head(bases) \notin D /\ Head(bases) \notin DOMAIN F
         THEN Walk(Tail(bases), {}, D, F)              \* the root does not exist
         ELSE Walk(Tail(bases), {Head(bases)}, D, F)
    ELSE {[bases |-> << >>, stack |-> {}, queue |-> {}]}

\* the scan's records after the walk has moved on; the loops ended: return stats
Advanced(tk) ==
    {[tk EXCEPT !.bases = w.bases, !.stack = w.stack, !.queue = w.queue,
                !.pc = IF w.queue = {} THEN "done" ELSE "run"]
        : w \in Walk(tk.bases, tk.stack, dirs, files)}

\* paths_to_scan = [path] if path else self.media_paths (line 239)
PathsToScan(path) == IF path # NoPath THEN <<path>> ELSE media_paths

\* the directories from root down to the one that holds f
DirChain(root, f) ==
    {SubSeq(f, 1, i - 1) : i \in {j \in (Len(root) + 1)..Len(f) : f[j] = "/"}}

\* f lies below root
Below(root, f) ==
    Len(root) < Len(f) /\ SubSeq(f, 1, Len(root)) = root /\ f[Len(root) + 1] = "/"

\* the recognized media files a scan of path reaches (history, for `fresh0`)
Covered(path) ==
    {f \in DOMAIN files :
        /\ IsVideo(f) \/ IsImage(f)
        /\ \E i \in DOMAIN PathsToScan(path) :
              /\ Below(PathsToScan(path)[i], f)
              /\ \A d \in DirChain(PathsToScan(path)[i], f) : ~SkipDir(d)}

\* the cache file of f exists and is at least as new as f
FreshEntry(f) ==
    /\ ThumbPath(f) \in DOMAIN files
    /\ files[ThumbPath(f)].mtime >= files[f].mtime

\* async_generate_all_thumbnails(path) of generator g up to the first file
\* (lines 237-250)
ScanBeginOn(t, path, g) ==
    \E a \in Advanced([IdleTask EXCEPT
            !.op = "scan", !.path = path, !.gen = g,
            !.bases = PathsToScan(path),
            !.again = (task[t].op = "scan" /\ task[t].pc = "done" /\ task[t].path = path),
            !.fresh0 = \A f \in Covered(path) : FreshEntry(f)]) :
          SetTask(t, a)

\* the same of the generator constructed last
ScanBegin(t, path) == ScanBeginOn(t, path, hass.gen)

\* a call of async_generate_all_thumbnails(path)
ScanCall(t, path) ==
    /\ Ready(t)
    /\ calls < MaxCalls
    /\ calls' = calls + 1
    /\ ScanBegin(t, path)
    /\ UNCHANGED <<now, dirs, files, ffmpeg_available, memo, procs, probes, envops>>
    /\ UNCHANGED setup_vars
    /\ UNCHANGED hass

\* the scan goes on after "continue" (no await): to the next file
Continue(t, tk) ==
    IF tk.queue # {} THEN SetTask(t, tk) ELSE \E a \in Advanced(tk) : SetTask(t, a)

\* one iteration of "for filename in files" up to its await or continue (lines 250-268)
ScanFile(t, file_path) ==
    LET tk == [task[t] EXCEPT !.queue = @ \ {file_path}]
        ext == Suffix(file_path)
        thumb == ThumbPath(file_path)
        counted == [tk EXCEPT !.stats = [@ EXCEPT !.scanned = @ + 1]]
    IN
    /\ task[t].op = "scan" /\ task[t].pc = "run"
    /\ file_path \in task[t].queue
    /\ IF ext \notin VIDEO_EXTENSIONS /\ ext \notin IMAGE_EXTENSIONS
       THEN /\ Continue(t, tk)
            /\ UNCHANGED <<memo, dirs, procs, probes>>
       ELSE IF Exists(thumb) /\ file_path \notin DOMAIN files
       THEN \* Path(file_path).stat() raises FileNotFoundError (line 261)
            /\ SetTask(t, [counted EXCEPT !.pc = "raised"])
            /\ UNCHANGED <<memo, dirs, procs, probes>>
       ELSE IF IsFresh(thumb, file_path)
       THEN /\ Continue(t, [counted EXCEPT !.stats = [@ EXCEPT !.skipped = @ + 1]])
            /\ UNCHANGED <<memo, dirs, procs, probes>>
       ELSE RenderEnter(t, [counted EXCEPT
                !.media = file_path, !.thumb = thumb,
                !.kind = IF ext \in VIDEO_EXTENSIONS THEN "video" ELSE "image"])
    /\ UNCHANGED <<now, files, ffmpeg_available, calls, envops>>
    /\ UNCHANGED setup_vars
    /\ UNCHANGED hass

\* the scan resumes after "await asyncio.sleep(0)" (line 275) with the
\* directory exhausted: os.walk moves on, or the loops end (lines 277-280)
ScanNext(t) ==
    LET tk == task[t] IN
    /\ tk.op = "scan" /\ tk.pc = "run"
    /\ tk.queue = {}
    /\ \E a \in Advanced(tk) : SetTask(t, a)
    /\ UNCHANGED <<now, dirs, files, ffmpeg_available, memo, procs, probes, calls, envops>>
    /\ UNCHANGED setup_vars
    /\ UNCHANGED hass

----------------------------------------------------------------------------
\* The integration

\* hass after async_setup_entry of the config entry, at time 0 with the
\* default options
LoadedHass ==
    [data |-> <<"frontend_loaded", "entry">>,  \* the keys of hass.data[DOMAIN], in insertion order
     services |-> TRUE,                        \* generate_thumbnails and clear_cache are registered
     service_gen |-> 1,                        \* the generator the service handlers are bound to
     commands |-> TRUE,                        \* the websocket commands are registered
     reply |-> "none",                         \* the outcome of the last get_config command
     gen |-> 1,                                \* generators constructed so far
     retired |-> << >>,                        \* the cached probe results of the replaced generators
     auto_generate |-> DEFAULT_AUTO_GENERATE,  \* config_data[CONF_AUTO_GENERATE]
     setups |-> 1,                             \* history: completed async_setup_entry calls
     sleepers |-> {[t0 |-> 0, gen |-> 1]},     \* generate_on_startup tasks in asyncio.sleep:
                                               \* start time and generator
     autoscans |-> 0,                          \* history: scans begun by generate_on_startup
     requests |-> 0]                           \* history: calls of the generate_thumbnails service

\* hass before the config entry is set up, the entry holding option auto
NewHass(auto) ==
    [LoadedHass EXCEPT !.data = << >>, !.services = FALSE, !.commands = FALSE,
                       !.gen = 0, !.auto_generate = auto,
                       !.setups = 0, !.sleepers = {}]

\* the keys of a dict
Keys(d) == {d[i] : i \in DOMAIN d}

\* d[k] = ...: a new key goes to the end, an old one keeps its place
Put(d, k) == IF k \in Keys(d) THEN d ELSE Append(d, k)

\* d.pop(k)
Pop(d, k) == SelectSeq(d, LAMBDA x : x # k)

\* SetupReturn that creates the startup task whatever auto_generate says
SetupReturn_AlwaysAuto ==
    hass' = [hass EXCEPT
        !.data = Put(@, "entry"),
        !.services = TRUE,
        !.service_gen = hass.gen,
        !.commands = TRUE,
        !.setups = @ + 1,
        !.sleepers = @ \cup {[t0 |-> now, gen |-> hass.gen]}]

\* async_setup_entry after "await generator.async_check_ffmpeg()" (lines
\* 109-160): the generator is stored, the websocket commands and the services
\* are registered (the handlers hold this generator) and, with auto_generate,
\* generate_on_startup is created as a task
SetupReturn ==
    hass' = [hass EXCEPT
        !.data = Put(@, "entry"),
        !.services = TRUE,
        !.service_gen = hass.gen,
        !.commands = TRUE,
        !.setups = @ + 1,
        !.sleepers = IF hass.auto_generate
                     THEN @ \cup {[t0 |-> now, gen |-> hass.gen]} ELSE @]

----------------------------------------------------------------------------
\* Subprocess completions

\* "ffmpeg -version" exits (or could not be started): async_check_ffmpeg lines 62-72,
\* then the caller continues with the returned value
ProbeExit(t, ok) ==
    LET tk == task[t]
        avail == IF ok THEN "yes" ELSE "no"
    IN
    /\ tk.pc = "probe"
    /\ ffmpeg_available' = avail
    /\ IF tk.op \in {"check", "setup"}
       THEN /\ SetTask(t, [tk EXCEPT !.pc = "done", !.avail = avail])
            /\ UNCHANGED <<dirs, procs, memo>>
       ELSE RenderStart(t, tk, avail)
    /\ IF tk.op = "setup" THEN SetupReturn ELSE UNCHANGED hass
    /\ UNCHANGED <<now, files, probes, calls, envops>>
    /\ UNCHANGED setup_vars

\* the versions of its input a render subprocess may have read: any the
\* source went through since the subprocess was started (none if it was missing)
ReadVersions(p) ==
    IF p.ver = 0 THEN {}
    ELSE IF Canon(p.src) \in DOMAIN files THEN p.ver..files[Canon(p.src)].ver
    ELSE {p.ver}

\* a render subprocess exits with return code 0 (zero) or not, having written
\* its output file from version v of the input (v = 0: nothing written); the
\* awaiting coroutine, if any, resumes (lines 182-189 and 220-226)
ProcExit(p, zero, v) ==
    /\ p \in procs
    /\ v # 0 => (zero /\ v \in ReadVersions(p))
    /\ procs' = procs \ {p}
    /\ files' = IF v # 0
                THEN [x \in DOMAIN files \cup {p.out} |->
                        IF x = p.out THEN [mtime |-> now, ver |-> v] ELSE files[x]]
                ELSE files
    /\ IF p.awaited
       THEN RenderReturn(p.owner, task[p.owner], zero)
       ELSE UNCHANGED <<task, memo>>
    /\ UNCHANGED <<now, dirs, ffmpeg_available, probes, calls, envops>>
    /\ UNCHANGED setup_vars
    /\ UNCHANGED hass

\* asyncio.wait_for gives up: the coroutine resumes with TimeoutError
\* (lines 191-193 and 228-230); the subprocess is not killed
RenderTimeout(t) ==
    LET tk == task[t] IN
    /\ tk.pc = "render"
    /\ now = tk.started + Timeout(tk.kind)
    /\ \E p \in procs :
          /\ p.owner = t /\ p.awaited
          /\ procs' = (procs \ {p}) \cup {[p EXCEPT !.awaited = FALSE]}
    /\ RenderReturn(t, tk, FALSE)
    /\ UNCHANGED <<now, dirs, files, ffmpeg_available, probes, calls, envops>>
    /\ UNCHANGED setup_vars
    /\ UNCHANGED hass

\* ClearCache that also removes the cache files the memo names
ClearCache_Purge ==
    /\ memo' = [x \in {} |-> NoPath]
    /\ files' = [x \in DOMAIN files \ {memo[i] : i \in DOMAIN memo} |-> files[x]]
    /\ UNCHANGED <<now, dirs, ffmpeg_available, task, procs, probes, calls, envops>>
    /\ UNCHANGED setup_vars
    /\ UNCHANGED hass

\* clear_cache: self._cache.clear() (lines 282-284)
ClearCache ==
    /\ memo' = [x \in {} |-> NoPath]
    /\ UNCHANGED <<now, dirs, files, ffmpeg_available, task, procs, probes, calls, envops>>
    /\ UNCHANGED setup_vars
    /\ UNCHANGED hass

----------------------------------------------------------------------------
\* Environment

\* largest single advance of the clock: the shortest budget
Quantum == ImageTimeout

\* the times at which the pending wait_for calls give up
Deadlines == {task[t].started + Timeout(task[t].kind) : t \in {u \in Tasks : task[u].pc = "render"}}

\* time passes, at most up to the next wait_for deadline
Tick ==
    /\ now < MaxTime
    /\ \A d \in Deadlines : now < d
    /\ now' = now + Min({Quantum, MaxTime - now} \cup {d - now : d \in Deadlines})
    /\ UNCHANGED <<dirs, files, ffmpeg_available, memo, task, procs, probes, calls, envops>>
    /\ UNCHANGED setup_vars
    /\ UNCHANGED hass

\* The files the environment changes: those some call of the model reads.
\* (FileC is read by none: its directory is never walked and no identifier names it.)
Changing == {FileA, FileB, ThumbPath(FileA), ThumbPath(FileB)}

\* a source file is rewritten
ModifySource(f) ==
    /\ f \in SourceFiles /\ f \in Changing /\ f \in DOMAIN files
    /\ envops < MaxEnvOps
    /\ envops' = envops + 1
    /\ files' = [files EXCEPT ![f] = [mtime |-> now, ver |-> @.ver + 1]]
    /\ UNCHANGED <<now, dirs, ffmpeg_available, memo, task, procs, probes, calls>>
    /\ UNCHANGED setup_vars
    /\ UNCHANGED hass

\* a source file or a cache file is removed
DeleteFile(f) ==
    /\ f \in Changing /\ f \in DOMAIN files
    /\ envops < MaxEnvOps
    /\ envops' = envops + 1
    /\ files' = [x \in DOMAIN files \ {f} |-> files[x]]
    /\ UNCHANGED <<now, dirs, ffmpeg_available, memo, task, procs, probes, calls>>
    /\ UNCHANGED setup_vars
    /\ UNCHANGED hass

----------------------------------------------------------------------------
\* Specification

Init ==
    /\ now = 0
    /\ dirs = {<<"/">>, DirMedia, DirOld}
    /\ files = [f \in SourceFiles |-> [mtime |-> 0, ver |-> 1]]
    /\ ffmpeg_available = "unknown"
    /\ memo = [x \in {} |-> NoPath]
    /\ task = [t \in Tasks |-> IdleTask]
    /\ procs = {}
    /\ probes = 0
    /\ calls = 0
    /\ envops = 0
    /\ media_paths = ConfiguredPaths
    /\ quality = DEFAULT_THUMBNAIL_QUALITY
    /\ hass = LoadedHass

Next ==
    \/ \E t \in Tasks : CheckCall(t)
    \/ \E t \in Tasks, id \in Ids : LookupCall(t, id)
    \/ \E t \in Tasks, path \in {NoPath, DirOld} : ScanCall(t, path)
    \/ \E t \in Tasks : \E f \in task[t].queue : ScanFile(t, f)
    \/ \E t \in Tasks : ScanNext(t)
    \/ \E t \in Tasks, ok \in BOOLEAN : ProbeExit(t, ok)
    \/ \E p \in procs, zero \in BOOLEAN, v \in 0..MaxVer : ProcExit(p, zero, v)
    \/ \E t \in Tasks : RenderTimeout(t)
    \/ Tick
    \/ \E f \in Changing : ModifySource(f)
    \/ \E f \in Changing : DeleteFile(f)

Spec == Init /\ [][Next]_vars

\* Lookups and clear_cache calls, with the environment
NextClear ==
    \/ \E t \in Tasks, id \in Ids : LookupCall(t, id)
    \/ ClearCache
    \/ \E t \in Tasks, ok \in BOOLEAN : ProbeExit(t, ok)
    \/ \E p \in procs, zero \in BOOLEAN, v \in 0..MaxVer : ProcExit(p, zero, v)
    \/ \E t \in Tasks : RenderTimeout(t)
    \/ Tick
    \/ \E f \in Changing : ModifySource(f)
    \/ \E f \in Changing : DeleteFile(f)

SpecClear == Init /\ [][NextClear]_vars

\* One scan of a media directory that holds any of the files of ScanUniverse
InitScan ==
    /\ now = 0
    /\ dirs = {<<"/">>, DirMedia}
    /\ files \in {[f \in S |-> [mtime |-> 0, ver |-> 1]] : S \in SUBSET ScanUniverse}
    /\ ffmpeg_available = "unknown"
    /\ memo = [x \in {} |-> NoPath]
    /\ task = [t \in Tasks |-> IdleTask]
    /\ procs = {}
    /\ probes = 0
    /\ calls = MaxCalls - 1
    /\ envops = 0
    /\ media_paths = ConfiguredPaths
    /\ quality = DEFAULT_THUMBNAIL_QUALITY
    /\ hass = LoadedHass

NextScan ==
    \/ \E t \in Tasks : ScanCall(t, NoPath)
    \/ \E t \in Tasks : \E f \in task[t].queue : ScanFile(t, f)
    \/ \E t \in Tasks : ScanNext(t)
    \/ \E t \in Tasks, ok \in BOOLEAN : ProbeExit(t, ok)
    \/ \E p \in procs, zero \in BOOLEAN, v \in 0..MaxVer : ProcExit(p, zero, v)

SpecScan == InitScan /\ [][NextScan]_vars

\* Lookups in an engine constructed with any of ResolveConfigs, over a file
\* system that holds the relative path a.mp4 under any of the roots
InitResolve ==
    /\ now = 0
    /\ files \in {[f \in S |-> [mtime |-> 0, ver |-> 1]] : S \in SUBSET ResolveUniverse}
    /\ dirs = {<<"/">>, DirMedia} \cup {Parent(f) : f \in DOMAIN files}
    /\ ffmpeg_available = "unknown"
    /\ memo = [x \in {} |-> NoPath]
    /\ task = [t \in Tasks |-> IdleTask]
    /\ procs = {}
    /\ probes = 0
    /\ calls = 0
    /\ envops = 0
    /\ media_paths \in ResolveConfigs
    /\ quality = DEFAULT_THUMBNAIL_QUALITY
    /\ hass = LoadedHass

NextResolve ==
    \/ \E t \in Tasks, id \in ResolveIds : LookupCall(t, id)
    \/ \E t \in Tasks, ok \in BOOLEAN : ProbeExit(t, ok)
    \/ \E p \in procs, zero \in BOOLEAN, v \in 0..MaxVer : ProcExit(p, zero, v)

SpecResolve == InitResolve /\ [][NextResolve]_vars

\* One lookup of a video or of an image in an engine constructed with any
\* quality the options form accepts (vol.Range(min=10, max=100))
QualityIds == {FileA, FileB}

InitQuality ==
    /\ now = 0
    /\ dirs = {<<"/">>, DirMedia, DirOld}
    /\ files = [f \in SourceFiles |-> [mtime |-> 0, ver |-> 1]]
    /\ ffmpeg_available = "unknown"
    /\ memo = [x \in {} |-> NoPath]
    /\ task = [t \in Tasks |-> IdleTask]
    /\ procs = {}
    /\ probes = 0
    /\ calls = MaxCalls - 1
    /\ envops = 0
    /\ media_paths = ConfiguredPaths
    /\ quality \in MinQuality..MaxQuality
    /\ hass = LoadedHass

NextQuality ==
    \/ \E t \in Tasks, id \in QualityIds : LookupCall(t, id)
    \/ \E t \in Tasks, ok \in BOOLEAN : ProbeExit(t, ok)
    \/ \E p \in procs, zero \in BOOLEAN, v \in 0..MaxVer : ProcExit(p, zero, v)

SpecQuality == InitQuality /\ [][NextQuality]_vars

\* The config entry is set up once, with auto_generate on or off; afterwards
\* the generate_thumbnails service may be called and time passes
SetupHorizon == StartupDelay + MaxTime

\* async_setup_entry up to "await generator.async_check_ffmpeg()" (lines 60-106):
\* the frontend is registered, the generator constructed and the probe started
SetupCall(t) ==
    /\ "entry" \notin Keys(hass.data)
    /\ \A u \in Tasks : task[u].op = "setup" => task[u].pc # "probe"
    /\ hass.gen < MaxSetups
    /\ Ready(t)
    /\ calls' = calls + 1
    /\ hass' = [hass EXCEPT
          !.data = Put(@, "frontend_loaded"),
          !.gen = @ + 1,
          !.retired = IF hass.gen = 0 THEN @ ELSE Append(@, ffmpeg_available)]
    /\ ffmpeg_available' = "unknown"
    /\ memo' = [x \in {} |-> NoPath]
    /\ probes' = probes + 1
    /\ SetTask(t, [IdleTask EXCEPT !.op = "setup", !.pc = "probe", !.gen = hass.gen + 1])
    /\ UNCHANGED <<now, dirs, files, procs, envops>>
    /\ UNCHANGED setup_vars

\* handle_generate_thumbnails (lines 120-124): the service calls
\* generator.async_generate_all_thumbnails(path)
GenerateService(t, path) ==
    /\ hass.services
    /\ Ready(t)
    /\ calls < MaxCalls
    /\ calls' = calls + 1
    /\ ScanBeginOn(t, path, hass.service_gen)
    /\ hass' = [hass EXCEPT !.requests = @ + 1]
    /\ UNCHANGED <<now, dirs, files, ffmpeg_available, memo, procs, probes, envops>>
    /\ UNCHANGED setup_vars

\* Slept without the sleep
Slept_Immediately(s) == TRUE

\* "await asyncio.sleep(60)" of the task started at s.t0 has returned (line 151)
Slept(s) == now >= s.t0 + StartupDelay

\* generate_on_startup after its sleep (line 152):
\* await generator.async_generate_all_thumbnails()
StartupWake(t, s) ==
    /\ s \in hass.sleepers
    /\ Slept(s)
    /\ Ready(t)
    /\ calls' = calls + 1
    /\ ScanBeginOn(t, NoPath, s.gen)
    /\ hass' = [hass EXCEPT !.sleepers = @ \ {s}, !.autoscans = @ + 1]
    /\ UNCHANGED <<now, dirs, files, ffmpeg_available, memo, procs, probes, envops>>
    /\ UNCHANGED setup_vars

\* time passes up to SetupHorizon, at most up to the next wait_for deadline
SetupTick ==
    /\ now < SetupHorizon
    /\ \A d \in Deadlines : now < d
    /\ now' = now + Min({Quantum, SetupHorizon - now} \cup {d - now : d \in Deadlines})
    /\ UNCHANGED <<dirs, files, ffmpeg_available, memo, task, procs, probes, calls, envops>>
    /\ UNCHANGED setup_vars
    /\ UNCHANGED hass

InitSetup ==
    /\ now = 0
    /\ dirs = {<<"/">>, DirMedia, DirOld}
    /\ files = [f \in SourceFiles |-> [mtime |-> 0, ver |-> 1]]
    /\ ffmpeg_available = "unknown"
    /\ memo = [x \in {} |-> NoPath]
    /\ task = [t \in Tasks |-> IdleTask]
    /\ procs = {}
    /\ probes = 0
    /\ calls = 0
    /\ envops = 0
    /\ media_paths = ConfiguredPaths
    /\ quality = DEFAULT_THUMBNAIL_QUALITY
    /\ hass \in {NewHass(auto) : auto \in BOOLEAN}

NextSetup ==
    \/ \E t \in Tasks : SetupCall(t)
    \/ \E t \in Tasks, path \in {NoPath, DirOld} : GenerateService(t, path)
    \/ \E t \in Tasks : \E s \in hass.sleepers : StartupWake(t, s)
    \/ \E t \in Tasks : \E f \in task[t].queue : ScanFile(t, f)
    \/ \E t \in Tasks : ScanNext(t)
    \/ \E t \in Tasks, ok \in BOOLEAN : ProbeExit(t, ok)
    \/ \E p \in procs, zero \in BOOLEAN, v \in 0..MaxVer : ProcExit(p, zero, v)
    \/ \E t \in Tasks : RenderTimeout(t)
    \/ SetupTick

SpecSetup == InitSetup /\ [][NextSetup]_vars

\* The config entry is set up, unloaded and set up again (a reload is an
\* unload followed by a setup), and the get_config command is sent

\* async_unload_entry (lines 168-178)
Unload ==
    /\ "entry" \in Keys(hass.data)
    /\ hass' = [hass EXCEPT
          !.data = Pop(@, "entry"),
          !.services = IF Pop(hass.data, "entry") = << >> THEN FALSE ELSE @]
    /\ UNCHANGED <<now, dirs, files, ffmpeg_available, memo, task, procs, probes, calls, envops>>
    /\ UNCHANGED setup_vars

\* _get_generator (lines 181-186) over the values of hass.data[DOMAIN] in
\* insertion order: '"generator" in entry_data' raises TypeError when
\* entry_data is the bool stored under "frontend_loaded", and holds for the
\* dict stored under the entry id
GetGenerator(d) ==
    IF d = << >> THEN "none"
    ELSE IF Head(d) = "entry" THEN "generator"
    ELSE "raise"

\* websocket_get_config (lines 288-317); the generator of a loaded entry has
\* its probe result cached, so async_check_ffmpeg returns at once
WebsocketGetConfig ==
    /\ hass.commands
    /\ hass' = [hass EXCEPT !.reply =
          CASE GetGenerator(hass.data) = "raise" -> "raised"
            [] GetGenerator(hass.data) = "none" -> "not_configured"
            [] OTHER -> "configured"]
    /\ UNCHANGED <<now, dirs, files, ffmpeg_available, memo, task, procs, probes, calls, envops>>
    /\ UNCHANGED setup_vars

\* hass is new and the media directory holds one video
InitLifecycle ==
    /\ now = 0
    /\ dirs = {<<"/">>, DirMedia}
    /\ files = [f \in {FileA} |-> [mtime |-> 0, ver |-> 1]]
    /\ ffmpeg_available = "unknown"
    /\ memo = [x \in {} |-> NoPath]
    /\ task = [t \in Tasks |-> IdleTask]
    /\ procs = {}
    /\ probes = 0
    /\ calls = 0
    /\ envops = 0
    /\ media_paths = ConfiguredPaths
    /\ quality = DEFAULT_THUMBNAIL_QUALITY
    /\ hass \in {NewHass(auto) : auto \in BOOLEAN}

NextLifecycle ==
    \/ \E t \in Tasks : SetupCall(t)
    \/ Unload
    \/ WebsocketGetConfig
    \/ \E t \in Tasks : GenerateService(t, NoPath)
    \/ \E t \in Tasks : \E s \in hass.sleepers : StartupWake(t, s)
    \/ \E t \in Tasks : \E f \in task[t].queue : ScanFile(t, f)
    \/ \E t \in Tasks : ScanNext(t)
    \/ \E t \in Tasks, ok \in BOOLEAN : ProbeExit(t, ok)
    \/ \E p \in procs, zero \in BOOLEAN, v \in 0..MaxVer : ProcExit(p, zero, v)
    \/ \E t \in Tasks : RenderTimeout(t)
    \/ SetupTick

SpecLifecycle == InitLifecycle /\ [][NextLifecycle]_vars

\* A scan of the configured roots and a lookup of /media/a.mp4 by its
\* media-source identifier, by its path, or by its path spelled "/media//a.mp4"
KeyIds == {UriA, FileA, FileA2}

InitKeying ==
    /\ now = 0
    /\ dirs = {<<"/">>, DirMedia}
    /\ files = [f \in {FileA, FileB} |-> [mtime |-> 0, ver |-> 1]]
    /\ ffmpeg_available = "unknown"
    /\ memo = [x \in {} |-> NoPath]
    /\ task = [t \in Tasks |-> IdleTask]
    /\ procs = {}
    /\ probes = 0
    /\ calls = 0
    /\ envops = 0
    /\ media_paths = ConfiguredPaths
    /\ quality = DEFAULT_THUMBNAIL_QUALITY
    /\ hass = LoadedHass

NextKeying ==
    \/ \E t \in Tasks : ScanCall(t, NoPath)
    \/ \E t \in Tasks : \E f \in task[t].queue : ScanFile(t, f)
    \/ \E t \in Tasks : ScanNext(t)
    \/ \E t \in Tasks, id \in KeyIds : LookupCall(t, id)
    \/ \E t \in Tasks, ok \in BOOLEAN : ProbeExit(t, ok)
    \/ \E p \in procs, zero \in BOOLEAN, v \in 0..MaxVer : ProcExit(p, zero, v)

SpecKeying == InitKeying /\ [][NextKeying]_vars

----------------------------------------------------------------------------
\* Helpers of the claims

\* the components of a directory path
Components(d) ==
    LET cuts == {i \in 1..Len(d) : d[i] = "/"} \cup {Len(d) + 1} IN
    {SubSeq(d, i + 1, j - 1) : <<i, j>> \in
        {c \in cuts \X cuts : c[1] < c[2] /\ \A k \in cuts : ~(c[1] < k /\ k < c[2])}}
        \ {<< >>}

\* task t returned a path from the renderer's success in this step
LookupRendered(t) ==
    /\ task[t].op = "lookup" /\ task[t].pc = "render"
    /\ task'[t].pc = "done" /\ task'[t].result # NoPath

\* task t counted a file as generated in this step
ScanGenerated(t) ==
    /\ task[t].op = "scan" /\ task[t].pc = "render"
    /\ task'[t].stats.generated = task[t].stats.generated + 1

\* the step is a call of operation op, taken by task t
Called(t, op) == calls' = calls + 1 /\ Ready(t) /\ task'[t].op = op

\* the step is the scan t handling the recognized media file f of its directory
Processed(t, f) ==
    /\ task[t].op = "scan" /\ task[t].pc = "run"
    /\ f \in task[t].queue /\ f \notin task'[t].queue
    /\ task[t].queue \ {f} \subseteq task'[t].queue
    /\ task'[t].stats.scanned = task[t].stats.scanned + 1

\* the cache file of f exists and is strictly older than f
Stale(f) ==
    /\ f \in DOMAIN files /\ ThumbPath(f) \in DOMAIN files
    /\ files[ThumbPath(f)].mtime < files[f].mtime

\* in this step the lookup t called the renderer: it awaits the probe or the
\* render, or mkdir raised, or the tool is unavailable and it returned None
LookupRenders(t) ==
    \/ task'[t].pc \in {"probe", "render", "raised"}
    \/ ffmpeg_available = "no" /\ task'[t].pc = "done" /\ task'[t].result = NoPath

\* in this step the scan t called the renderer: likewise, counting a failure
ScanRenders(t) ==
    \/ task'[t].pc \in {"probe", "render", "raised"}
    \/ ffmpeg_available = "no" /\ task'[t].stats.failed = task[t].stats.failed + 1

\* the render subprocesses, whoever awaits them
Running(P) == {[p EXCEPT !.awaited = FALSE] : p \in P}

\* in this step wait_for gave up on the render of task t: the subprocess is
\* still running and nobody awaits it
TimedOut(t) ==
    /\ task[t].pc = "render" /\ task'[t].pc # "render"
    /\ \E p \in procs : /\ p.owner = t /\ p.awaited /\ p \notin procs'
                        /\ [p EXCEPT !.awaited = FALSE] \in procs'

----------------------------------------------------------------------------
\* Claims

\* C1: in every reachable state a cache file that passes the freshness check
\* (it exists and its mtime >= the source's mtime) was rendered from the
\* source file's current content.
C1_FreshIsCurrent ==
    \A f \in SourceFiles \cap DOMAIN files :
        FreshEntry(f) => files[ThumbPath(f)].ver = files[f].ver

\* C2: once a source file with a cache entry has an mtime later than the cache
\* file's, the next lookup for an identifier of the file and the next scan
\* handling it call the renderer for it and neither return nor skip the old
\* entry, whatever preceded.
C2_TouchRerenders ==
    [][\A t \in Tasks :
         /\ (Called(t, "lookup") /\ Stale(Resolve(task'[t].id))) => LookupRenders(t)
         /\ \A f \in SourceFiles : (Processed(t, f) /\ Stale(f)) => ScanRenders(t)]_vars

\* C3: a lookup that is not answered from the memo, and a scan, decide by
\* "the cache file exists and its mtime >= the source's mtime": exactly then the
\* lookup returns the entry and the scan counts it as skipped, with no probe
\* and no render subprocess started; otherwise the renderer is called and the
\* entry is neither returned nor skipped.
C3_FreshnessDecision ==
    [][\A t \in Tasks :
         /\ \A f \in SourceFiles \cap DOMAIN files :
              (/\ Called(t, "lookup") /\ ~MemoHit(task'[t].id)
               /\ f = Resolve(task'[t].id))
              => IF ThumbPath(f) \in DOMAIN files /\ files[ThumbPath(f)].mtime >= files[f].mtime
                 THEN /\ task'[t].pc = "done" /\ task'[t].result = ThumbPath(f)
                      /\ procs' = procs /\ probes' = probes
                 ELSE /\ LookupRenders(t)
                      /\ task'[t].result = NoPath
         /\ \A f \in SourceFiles \cap DOMAIN files :
              Processed(t, f)
              => IF ThumbPath(f) \in DOMAIN files /\ files[ThumbPath(f)].mtime >= files[f].mtime
                 THEN /\ task'[t].stats.skipped = task[t].stats.skipped + 1
                      /\ task'[t].stats.generated = task[t].stats.generated
                      /\ task'[t].stats.failed = task[t].stats.failed
                      /\ procs' = procs /\ probes' = probes
                 ELSE /\ ScanRenders(t)
                      /\ task'[t].stats.skipped = task[t].stats.skipped]_vars

\* a scan has skipped an entry whose cache file has the mtime of its source,
\* and a lookup has returned one
C3_EqualIsFresh ==
    /\ \A f \in {FileA, FileB} :
         /\ f \in DOMAIN files /\ ThumbPath(f) \in DOMAIN files
         /\ files[ThumbPath(f)].mtime = files[f].mtime
    /\ \E t \in Tasks : task[t].op = "scan" /\ task[t].stats.skipped >= 1
    /\ \E t \in Tasks : task[t].op = "lookup" /\ task[t].pc = "done"
                        /\ task[t].result = ThumbPath(FileA)

C5_ScanNeverRaises ==
    \A t \in Tasks : task[t].op = "scan" => task[t].pc # "raised"

\* C6: while the probe has reported the tool unavailable, no step starts a
\* render subprocess or creates a cache directory or file; a lookup that needs
\* a render returns None and memoizes nothing, and a scan counts each stale or
\* missing entry as failed and never as generated.
C6_UnavailableShortCircuit ==
    [][ffmpeg_available' = "no" =>
         /\ Running(procs') \subseteq Running(procs)
         /\ dirs' = dirs
         /\ DOMAIN files' \subseteq DOMAIN files \/ procs' # procs
         /\ \A t \in Tasks :
              /\ \A f \in SourceFiles \cap DOMAIN files :
                   (/\ Called(t, "lookup") /\ ~MemoHit(task'[t].id)
                    /\ f = Resolve(task'[t].id) /\ ~FreshEntry(f))
                   => task'[t].pc = "done" /\ task'[t].result = NoPath /\ memo' = memo
              /\ (task[t].pc = "probe" /\ task[t].op = "lookup" /\ task'[t] # task[t])
                   => task'[t].pc = "done" /\ task'[t].result = NoPath /\ memo' = memo
              /\ \A f \in SourceFiles \cap DOMAIN files :
                   (Processed(t, f) /\ ~FreshEntry(f))
                   => /\ task'[t].stats.failed = task[t].stats.failed + 1
                      /\ task'[t].stats.generated = task[t].stats.generated
              /\ (task[t].pc = "probe" /\ task[t].op = "scan" /\ task'[t] # task[t])
                   => /\ task'[t].stats.failed = task[t].stats.failed + 1
                      /\ task'[t].stats.generated = task[t].stats.generated
                      /\ task'[t].pc = "run"]_vars

\* the tool is unavailable, a scan has counted its two entries as failed, a
\* lookup has returned None, and nothing was started or created
C6_AllFailed ==
    /\ ffmpeg_available = "no" /\ procs = {}
    /\ Parent(ThumbPath(FileA)) \notin dirs
    /\ \E t \in Tasks : /\ task[t].op = "scan" /\ task[t].pc = "done"
                        /\ task[t].stats.failed = 2 /\ task[t].stats.generated = 0
    /\ \E t \in Tasks : /\ task[t].op = "lookup" /\ task[t].pc = "done"
                        /\ task[t].result = NoPath

\* C7 as stated: the tool is invoked for probing at most once.
C7_ProbedOnce == probes <= 1

\* C7 amended: once a probe has completed, no call invokes the tool for probing
\* again, a probeTool call returns the cached availability at once, and the
\* availability never returns to unknown.
C7_NoReprobe ==
    [][ffmpeg_available # "unknown" =>
         /\ probes' = probes
         /\ ffmpeg_available' # "unknown"
         /\ \A t \in Tasks :
              Called(t, "check") => /\ task'[t].pc = "done"
                                    /\ task'[t].avail = ffmpeg_available]_vars

\* a lookup has probed the tool and started its render, and a later probeTool
\* call has returned the cached answer: one probe for two calls
C7_CachedAnswer ==
    /\ calls = 2 /\ probes = 1 /\ ffmpeg_available = "yes"
    /\ \E t \in Tasks : task[t].op = "lookup" /\ task[t].pc = "render"
    /\ \E t \in Tasks : task[t].op = "check" /\ task[t].pc = "done" /\ task[t].avail = "yes"

\* C8: a render never waits longer than its budget (30 for a video, 15 for an
\* image); when the budget elapses with the subprocess still running, the
\* render returns False at that time: the lookup returns None and memoizes
\* nothing, the scan counts the file as failed, not as generated, and goes on.
C8_TimeoutFails ==
    [][\A t \in Tasks :
         /\ task'[t].pc = "render"
              => now' - task'[t].started <= (IF task'[t].kind = "video" THEN 30 ELSE 15)
         /\ TimedOut(t) =>
              /\ now - task[t].started = (IF task[t].kind = "video" THEN 30 ELSE 15)
              /\ IF task[t].op = "lookup"
                 THEN /\ task'[t].pc = "done" /\ task'[t].result = NoPath
                      /\ memo' = memo
                 ELSE /\ task'[t].pc = "run"
                      /\ task'[t].queue = task[t].queue
                      /\ task'[t].stats.failed = task[t].stats.failed + 1
                      /\ task'[t].stats.generated = task[t].stats.generated]_vars

\* a video lookup and an image render of a scan have timed out: both
\* subprocesses are still running, the lookup returned None and the scan
\* counted a failure
C8_BothTimedOut ==
    /\ \E p \in procs : ~p.awaited /\ p.src = FileA
    /\ \E p \in procs : ~p.awaited /\ p.src = FileB
    /\ \E t \in Tasks : /\ task[t].op = "lookup" /\ task[t].pc = "done"
                        /\ task[t].result = NoPath /\ task[t].id \notin DOMAIN memo
    /\ \E t \in Tasks : task[t].op = "scan" /\ task[t].stats.failed >= 1

\* C9: the renderer reports success only when the subprocess exited with code 0
\* and the destination file is present: when a lookup returns a path after a
\* render, or a scan counts a file as generated, the cache file is on disk.
C9_SuccessHasFile ==
    [][\A t \in Tasks :
         (LookupRendered(t) \/ ScanGenerated(t)) => task[t].thumb \in DOMAIN files']_vars

\* the recognized media files below the roots of a scan that lie in a
\* directory none of whose path components equals the cache-subdirectory name
C10_Expected(path) ==
    {f \in DOMAIN files :
        /\ Suffix(f) \in VIDEO_EXTENSIONS \cup IMAGE_EXTENSIONS
        /\ thumbnail_folder \notin Components(Parent(f))
        /\ \E i \in DOMAIN PathsToScan(path) : Below(PathsToScan(path)[i], f)}

\* C10: a directory is skipped if and only if one of the components of its path
\* equals the cache-subdirectory name: with no file changed by the environment,
\* a finished scan has counted exactly the recognized media files that lie in
\* directories without such a component.
C10_ScansByComponent ==
    \A t \in Tasks :
        (task[t].op = "scan" /\ task[t].pc = "done" /\ envops = 0)
            => task[t].stats.scanned = Cardinality(C10_Expected(task[t].path))


\* the spellings of the recognized video and image extensions
C11_VideoSpellings == {".mp4", ".mkv", ".avi", ".mov", ".webm", ".m4v", ".ts", ".MP4"}
C11_ImageSpellings == {".jpg", ".jpeg", ".png", ".gif", ".webp", ".JPG", ".PNG"}

\* the extension of a file: the last part of a name of several parts
C11_Extension(f) == IF Len(Name(f)) >= 2 THEN f[Len(f)] ELSE ""

\* the step is the scan t taking file f from the listing of its directory
C11_Visits(t, f) ==
    /\ task[t].op = "scan" /\ task[t].pc = "run"
    /\ f \in task[t].queue /\ f \notin task'[t].queue
    /\ task[t].queue \ {f} \subseteq task'[t].queue

\* C11: a file the scan visits is counted in scanned if and only if its
\* extension, whatever its case, is a recognized video or image extension; any
\* other file changes no counter and starts no probe and no render; a video
\* extension goes to the video renderer and an image extension to the image
\* renderer; a finished scan has counted exactly the recognized files.
C11_ExtensionFilter ==
    [][\A t \in Tasks :
         /\ \A f \in ScanUniverse :
              C11_Visits(t, f) =>
                IF C11_Extension(f) \in C11_VideoSpellings \cup C11_ImageSpellings
                THEN /\ task'[t].stats.scanned = task[t].stats.scanned + 1
                     /\ task'[t].pc \in {"probe", "render"}
                          => task'[t].kind = (IF C11_Extension(f) \in C11_VideoSpellings
                                              THEN "video" ELSE "image")
                     /\ \A p \in procs' \ procs :
                          /\ p.src = f
                          /\ p.kind = (IF C11_Extension(f) \in C11_VideoSpellings
                                       THEN "video" ELSE "image")
                ELSE /\ task'[t].stats = task[t].stats
                     /\ procs' = procs /\ probes' = probes /\ dirs' = dirs
         /\ (task'[t].op = "scan" /\ task'[t].pc = "done")
              => task'[t].stats.scanned =
                    Cardinality({f \in ScanUniverse \cap DOMAIN files :
                        C11_Extension(f) \in C11_VideoSpellings \cup C11_ImageSpellings})]_vars

\* a scan of a directory holding clip.MP4, b.png, notes.txt, archive.zip and
\* .mp4 has finished: it counted two files and rendered both
C11_TwoOfFive ==
    /\ ScanUniverse \cap DOMAIN files = {FileU, FileB, FileT, FileZ, FileH}
    /\ \E t \in Tasks : /\ task[t].op = "scan" /\ task[t].pc = "done"
                        /\ task[t].stats.scanned = 2 /\ task[t].stats.generated = 2
    /\ ThumbPath(FileU) \in DOMAIN files /\ ThumbPath(FileB) \in DOMAIN files


\* the relative path of a structured identifier: the namespace prefix and an
\* optional leading "local/" removed
C12_Relative(id) ==
    IF id[2] = "local/" THEN SubSeq(id, 3, Len(id)) ELSE SubSeq(id, 2, Len(id))

\* the candidates of a relative path: under /media, then under each configured
\* root in the configured order
C12_Candidates(id) ==
    << <<"/", "media", "/">> \o C12_Relative(id) >> \o
    [i \in 1..Len(media_paths) |-> media_paths[i] \o <<"/">> \o C12_Relative(id)]

\* what resolve(id) is to return
C12_Expected(id) ==
    IF id[1] = "media-source://media_source/"
    THEN IF \E i \in 1..Len(C12_Candidates(id)) : C12_Candidates(id)[i] \in DOMAIN files
         THEN C12_Candidates(id)[Min({i \in 1..Len(C12_Candidates(id)) :
                                        C12_Candidates(id)[i] \in DOMAIN files})]
         ELSE NoPath
    ELSE IF id \in DOMAIN files THEN id ELSE NoPath

\* C12: a lookup that is not answered from the memo works on resolve(id): the
\* literal path itself if it exists, and for a structured identifier the first
\* existing candidate in the order /media, then the configured roots in their
\* order; when there is none the lookup returns None.
C12_ResolveOrder ==
    [][\A t \in Tasks : \A id \in ResolveIds :
         (Called(t, "lookup") /\ task'[t].id = id /\ ~MemoHit(id)) =>
            IF C12_Expected(id) = NoPath
            THEN task'[t].pc = "done" /\ task'[t].result = NoPath
            ELSE \/ /\ task'[t].pc \in {"probe", "render"}
                    /\ task'[t].media = C12_Expected(id)
                 \/ /\ task'[t].pc = "done"
                    /\ task'[t].result = ThumbPath(C12_Expected(id))
                    /\ task'[t].result \in DOMAIN files
                 \/ /\ task'[t].pc \in {"done", "raised"}
                    /\ ffmpeg_available = "no" \/ task'[t].pc = "raised"
                    /\ task'[t].result = NoPath]_vars

\* a.mp4 exists under /media, /alt and /alt2, configured are /alt2 then /alt:
\* the structured identifier is being rendered from /media/a.mp4
C12_MediaFirst ==
    /\ ResolveUniverse \subseteq DOMAIN files
    /\ media_paths = << <<"/", "alt2">>, <<"/", "alt">> >>
    /\ \E t \in Tasks : /\ task[t].id = UriA /\ task[t].pc = "render"
                        /\ task[t].media = FileA


\* C13: a lookup that is not answered from the memo and whose identifier
\* resolves to no existing file returns None in the same step: no probe and no
\* render subprocess is started, no file or directory is created, and the memo
\* and the availability are unchanged.
C13_NotFoundIsNull ==
    [][\A t \in Tasks : \A id \in ResolveIds :
         (/\ Called(t, "lookup") /\ task'[t].id = id
          /\ ~MemoHit(id) /\ C12_Expected(id) = NoPath)
         => /\ task'[t].pc = "done" /\ task'[t].result = NoPath
            /\ probes' = probes /\ procs' = procs
            /\ files' = files /\ dirs' = dirs
            /\ memo' = memo /\ ffmpeg_available' = ffmpeg_available]_vars

\* with a.mp4 under /alt2 only and /alt the one configured root, a lookup of
\* the structured identifier and one of the literal path /alt/a.mp4 have both
\* returned None and nothing was probed, started or created
C13_TwoNotFound ==
    /\ DOMAIN files = {Alt2A} /\ media_paths = << <<"/", "alt">> >>
    /\ task[1].op = "lookup" /\ task[1].pc = "done" /\ task[1].result = NoPath
    /\ task[2].op = "idle" /\ calls = 2
    /\ probes = 0 /\ procs = {} /\ DOMAIN memo = {}
    /\ dirs = {<<"/">>, DirMedia, <<"/", "alt2">>}


\* C14: a lookup whose identifier the memo maps to an existing file returns
\* that path in the step of the call, with no probe, no render and no change
\* of the memo, whatever became of the source; when the memoized file is gone
\* the lookup resolves, compares the mtimes and renders like any other.
C14_MemoFastPath ==
    [][\A t \in Tasks : \A id \in Ids :
         (Called(t, "lookup") /\ task'[t].id = id) =>
            IF id \in DOMAIN memo /\ memo[id] \in DOMAIN files
            THEN /\ task'[t].pc = "done" /\ task'[t].result = memo[id]
                 /\ probes' = probes /\ procs' = procs
                 /\ memo' = memo /\ dirs' = dirs
            ELSE IF FileA \notin DOMAIN files
            THEN task'[t].pc = "done" /\ task'[t].result = NoPath /\ memo' = memo
            ELSE IF /\ ThumbPath(FileA) \in DOMAIN files
                    /\ files[ThumbPath(FileA)].mtime >= files[FileA].mtime
            THEN /\ task'[t].pc = "done" /\ task'[t].result = ThumbPath(FileA)
                 /\ memo'[id] = ThumbPath(FileA)
            ELSE LookupRenders(t) /\ memo' = memo]_vars

\* the second lookup has returned the memoized path although the source file
\* was deleted after the first
C14_ServedAfterDelete ==
    /\ calls = 2 /\ task[2].op = "idle"
    /\ task[1].op = "lookup" /\ task[1].pc = "done"
    /\ task[1].result = ThumbPath(FileA)
    /\ FileA \notin DOMAIN files /\ ThumbPath(FileA) \in DOMAIN files


\* C15: clear_cache empties the memo and changes nothing else: the files and
\* directories on disk, the availability, the configuration and the running
\* calls and subprocesses are as before; a lookup that starts with the memo
\* empty resolves its identifier and compares the mtimes again.
C15_ClearOnlyMemo ==
    [][/\ (DOMAIN memo # {} /\ DOMAIN memo' = {})
            => UNCHANGED <<files, dirs, ffmpeg_available, media_paths, quality,
                           task, procs, probes, now>>
       /\ \A t \in Tasks : \A id \in Ids :
            (DOMAIN memo = {} /\ Called(t, "lookup") /\ task'[t].id = id) =>
               IF FileA \notin DOMAIN files
               THEN task'[t].pc = "done" /\ task'[t].result = NoPath
               ELSE IF /\ ThumbPath(FileA) \in DOMAIN files
                       /\ files[ThumbPath(FileA)].mtime >= files[FileA].mtime
               THEN task'[t].pc = "done" /\ task'[t].result = ThumbPath(FileA)
               ELSE LookupRenders(t)]_vars

\* the first lookup rendered and memoized the thumbnail, the source was
\* deleted, the memo was cleared, and the second lookup has returned None
\* while the cache file is still on disk
C15_ClearedThenNotFound ==
    /\ calls = 2 /\ now = 0 /\ procs = {} /\ DOMAIN memo = {}
    /\ task[1].op = "lookup" /\ task[1].pc = "done" /\ task[1].result = NoPath
    /\ task[2].op = "idle"
    /\ FileA \notin DOMAIN files /\ ThumbPath(FileA) \in DOMAIN files


\* C16: no step of a scan reads or writes the memo: whenever a scan is called
\* or moves on (skips, starts a render, counts a generated or failed file,
\* finishes or raises), the memo after the step is the memo before it.
C16_ScanLeavesMemo ==
    [][\A t \in Tasks :
         (task'[t] # task[t] /\ task'[t].op = "scan") => memo' = memo]_vars

\* a scan has generated a thumbnail and finished while the memo holds just the
\* identifier an overlapping lookup memoized
C16_OnlyLookupMemoized ==
    /\ DOMAIN memo = {UriA}
    /\ \E t \in Tasks : /\ task[t].op = "scan" /\ task[t].pc = "done"
                        /\ task[t].stats.generated >= 1
    /\ \E t \in Tasks : task[t].op = "lookup" /\ task[t].pc = "done"


\* C17: nothing keeps a second render of a source from starting: a lookup or a
\* scan that finds the entry stale or missing while a render subprocess for
\* the same cache path is in flight starts its own subprocess for that path;
\* and a subprocess that writes replaces whatever an earlier writer left.
C17_NoSingleFlight ==
    [][/\ \A t \in Tasks :
            (task'[t] # task[t] /\ procs # {} /\ ffmpeg_available = "yes") =>
               \A f \in {FileA, FileB} :
                  (/\ \/ Processed(t, f)
                      \/ /\ Called(t, "lookup") /\ ~MemoHit(task'[t].id)
                         /\ Resolve(task'[t].id) = f
                   /\ \E p \in procs : p.src = f /\ p.out = ThumbPath(f)
                   /\ f \in DOMAIN files /\ ~FreshEntry(f))
                  => /\ task'[t].pc = "render" /\ task'[t].thumb = ThumbPath(f)
                     /\ \E q \in procs' :
                           /\ q \notin procs /\ q.owner = t /\ q.awaited
                           /\ q.src = f /\ q.out = ThumbPath(f)
       /\ (files' # files /\ procs' # procs) =>
            \A p \in procs :
               p \notin procs' => /\ files'[p.out].mtime = now
                                  /\ files'[p.out].ver \in ReadVersions(p)]_vars

\* two awaited render subprocesses write the same cache path, one started on
\* the first version of the source and one on the second
C17_TwoInFlight ==
    \E p1, p2 \in procs :
        /\ p1.awaited /\ p2.awaited /\ p1.owner # p2.owner
        /\ p1.out = p2.out /\ p1.ver = 1 /\ p2.ver = 2

----------------------------------------------------------------------------
\* C18

\* the nearest integer to (100 - q) / 3.33 = (100 - q) * 100 / 333; no
\* quotient of the range lies halfway between two integers
C18_Round(q) == ((100 - q) * 200 + 333) \div 666

\* C18: for every quality of 10..100, the "-q:v" argument of every render
\* subprocess, video or image, is the nearest integer to (100 - quality) / 3.33
C18_QualityIsRounded ==
    \A p \in procs : p.q = C18_Round(quality)

----------------------------------------------------------------------------
\* C19

\* a scan begins in this step, in slot t
C19_ScanBegins(t) == Free(t) /\ task'[t] # task[t] /\ task'[t].op = "scan"

\* C19: the setup of the config entry creates exactly one startup task when
\* auto_generate is true and none when it is false; every startup task begins
\* exactly one scan, with no path (all configured roots), and not before the
\* startup delay has elapsed since the setup; every other scan that begins is
\* a call of the generate_thumbnails service
C19_StartupScan ==
    [][/\ hass'.setups # hass.setups =>
             /\ hass'.setups = hass.setups + 1
             /\ hass'.autoscans = hass.autoscans
             /\ hass'.sleepers =
                   IF hass.auto_generate
                   THEN hass.sleepers \cup {[t0 |-> now, gen |-> hass.gen]}
                   ELSE hass.sleepers
             /\ Cardinality(hass'.sleepers) + hass'.autoscans =
                   IF hass.auto_generate THEN hass'.setups ELSE 0
       /\ hass'.setups = hass.setups =>
             Cardinality(hass'.sleepers) + hass'.autoscans =
                Cardinality(hass.sleepers) + hass.autoscans
       /\ \A t \in Tasks :
             C19_ScanBegins(t) =>
                \/ hass'.requests = hass.requests + 1 /\ hass'.sleepers = hass.sleepers
                \/ /\ hass.auto_generate /\ hass'.requests = hass.requests
                   /\ hass'.autoscans = hass.autoscans + 1
                   /\ task'[t].path = NoPath
                   /\ task'[t] \in Advanced([IdleTask EXCEPT
                          !.op = "scan", !.bases = media_paths,
                          !.again = task'[t].again, !.fresh0 = task'[t].fresh0])
                   /\ \E s \in hass.sleepers :
                         /\ hass'.sleepers = hass.sleepers \ {s}
                         /\ now >= s.t0 + StartupDelay
       /\ (\A t \in Tasks : ~C19_ScanBegins(t)) => hass'.autoscans = hass.autoscans]_vars

\* a startup scan has begun after the startup delay and has handled a file
C19_StartupScanRan ==
    /\ hass.auto_generate /\ hass.autoscans = 1 /\ hass.sleepers = {} /\ hass.requests = 0
    /\ now > StartupDelay
    /\ \E t \in Tasks : task[t].op = "scan" /\ task[t].path = NoPath /\ task[t].stats.scanned > 0

----------------------------------------------------------------------------
\* C20

\* C20: no render subprocess outlives the renderer call that started it:
\* every running render subprocess belongs to a coroutine that is still
\* awaiting it inside _generate_video_thumbnail / _generate_image_thumbnail
C20_NoOrphan ==
    \A p \in procs :
        /\ p.awaited
        /\ task[p.owner].pc = "render"
        /\ task[p.owner].thumb = p.out

----------------------------------------------------------------------------
\* C21

\* the generator of the loaded config entry is generator g
C21_Loaded(h, g) == "entry" \in Keys(h.data) /\ g = h.gen

\* C21: the startup task belongs to its generator's lifecycle: at most one
\* startup scan is pending, a pending one belongs to the loaded generator
\* (unload and reload cancel it), and a startup scan only ever begins on the
\* loaded generator
C21_StartupTaskOwned ==
    [][/\ Cardinality(hass'.sleepers) <= 1
       /\ \A s \in hass'.sleepers : C21_Loaded(hass', s.gen)
       /\ \A s \in hass.sleepers \ hass'.sleepers : C21_Loaded(hass, s.gen)]_vars

----------------------------------------------------------------------------
\* C22

\* C22: the generate_thumbnails and clear_cache services are registered
\* while the config entry is loaded and removed once it has been unloaded
C22_ServicesFollowEntry ==
    hass.setups > 0 => (hass.services <=> "entry" \in Keys(hass.data))

----------------------------------------------------------------------------
\* C23

\* C23: once the websocket commands are registered, _get_generator returns
\* the generator when the config entry is loaded and None otherwise, and
\* never raises, so that no get_config command ends in an exception
C23_GetGeneratorTotal ==
    hass.commands =>
        /\ GetGenerator(hass.data) =
              IF "entry" \in Keys(hass.data) THEN "generator" ELSE "none"
        /\ hass.reply # "raised"

----------------------------------------------------------------------------
\* C24

\* the files a stats dict has classified
C24_Classified(st) == st.generated + st.skipped + st.failed

\* C24: the stats a scan returns satisfy scanned = generated + skipped +
\* failed with no negative counter; while the scan runs, the one file counted
\* and not yet classified is the one being rendered; a scan starts from zero
\* counters, and a step of one coroutine leaves the stats of every other alone
C24_StatsAddUp ==
    [][\A t \in Tasks :
          /\ task'[t].op = "scan" =>
                /\ \A k \in DOMAIN ZeroStats : task'[t].stats[k] >= 0
                /\ task'[t].pc \in {"done", "run"} =>
                      task'[t].stats.scanned = C24_Classified(task'[t].stats)
                /\ task'[t].pc \in {"probe", "render"} =>
                      task'[t].stats.scanned = C24_Classified(task'[t].stats) + 1
          /\ (Free(t) /\ task'[t] # task[t] /\ task'[t].op = "scan") =>
                task'[t].stats = ZeroStats
          /\ task'[t].stats # task[t].stats =>
                \A u \in Tasks \ {t} : task'[u] = task[u]]_vars

\* two scans have returned different stats, one of them with a generated, a
\* failed and no skipped file, the other with a skipped file
C24_TwoScansReturned ==
    \E t, u \in Tasks :
        /\ task[t].op = "scan" /\ task[t].pc = "done"
        /\ task[u].op = "scan" /\ task[u].pc = "done"
        /\ task[t].stats = [scanned |-> 2, generated |-> 1, skipped |-> 0, failed |-> 1]
        /\ task[u].stats.skipped >= 1
        /\ task[u].stats # task[t].stats

----------------------------------------------------------------------------
\* C25

\* the cache path a scan writes for the file f it finds under a root
C25_ScanPath(f) == ThumbPath(f)

\* C25: whatever identifier a lookup is called with, if it resolves to a
\* file f whose cache entry (as a scan writes it) is fresh, the lookup
\* returns that entry and starts no render
C25_AnySpelling ==
    [][\A t \in Tasks :
          (/\ Called(t, "lookup") /\ ~MemoHit(task'[t].id)
           /\ Resolve(task'[t].id) # NoPath
           /\ Canon(Resolve(task'[t].id)) \in DOMAIN files
           /\ FreshEntry(Canon(Resolve(task'[t].id))))
          => /\ task'[t].pc = "done"
             /\ task'[t].result = C25_ScanPath(Canon(Resolve(task'[t].id)))
             /\ procs' = procs /\ probes' = probes]_vars

\* the identifiers that name /media/a.mp4 by the string the scan builds for
\* it: the media-source identifier and the path in that same spelling
C25_SameString == {UriA, FileA}

\* C25 amended: a render subprocess a scan starts for a file writes
\* C25_ScanPath of that file; a lookup whose identifier resolves to the
\* string the scan builds for the file (C25_SameString) checks that same
\* path: with the entry fresh it returns it and starts neither probe nor render
C25_SameSpelling ==
    [][\A t \in Tasks :
          /\ (task'[t].op = "scan" /\ task'[t].pc \in {"probe", "render"}) =>
                /\ task'[t].media \in DOMAIN files
                /\ task'[t].thumb = C25_ScanPath(task'[t].media)
          /\ (/\ Called(t, "lookup") /\ task'[t].id \in C25_SameString
              /\ ~MemoHit(task'[t].id)
              /\ FileA \in DOMAIN files /\ FreshEntry(FileA))
             => /\ task'[t].pc = "done"
                /\ task'[t].result = C25_ScanPath(FileA)
                /\ procs' = procs /\ probes' = probes]_vars

\* a scan has generated the entry of /media/a.mp4 and a lookup by the
\* media-source identifier has returned it; the scan's probe is the only one
C25_ScanThenLookup ==
    \E t, u \in Tasks :
        /\ task[t].op = "scan" /\ task[t].pc = "done" /\ task[t].stats.generated = 2
        /\ task[u].op = "lookup" /\ task[u].pc = "done" /\ task[u].id = UriA
        /\ task[u].result = C25_ScanPath(FileA)
        /\ C25_ScanPath(FileA) \in DOMAIN files
        /\ probes = 1 /\ procs = {}

=============================================================================
